---- MODULE Spec2Model ----
(***************************************************************************)
(* Marketplace data/authorization model: the tables, row-level security    *)
(* policies and signup trigger of the migration (src/unnamed/part_000),    *)
(* and the Dashboard / AddProductDialog handlers that query them           *)
(* (src/src/pages/Dashboard.tsx).                                          *)
(*                                                                         *)
(* Conventions.  A nullable SQL / JS value is a sequence of length <= 1:   *)
(* NULL is << >> and a present value v is <<v>>.  SQL comparisons are      *)
(* three-valued ("true", "false", "null"); a policy admits a row only when *)
(* its expression is "true".  Columns that no policy or handler branch     *)
(* reads (name, description, price, category_id, timestamps) are left out  *)
(* of the rows; category_id's foreign key is always satisfiable because no *)
(* request can remove a category.  The handlers are modelled as the        *)
(* functions they are: the render-time conditions that show or hide their  *)
(* buttons are not part of them.                                           *)
(***************************************************************************)
EXTENDS Integers, Sequences, FiniteSets, TLC

VARIABLES
  users,        \* auth.users rows: [id, email]
  nextUid,      \* ids the identity provider has handed out are 1..nextUid-1
  profiles,     \* public.profiles rows: [id, email, full_name, role]
  categories,   \* public.categories rows: [id, name]
  products,     \* public.products rows: [id, seller_id, quantity, is_active, image_url]
  nextPid,      \* product ids generated so far are 1..nextPid-1 (creation order)
  objects,      \* storage.objects rows: [bucket_id, name, data]
  session,      \* client -> auth uid of the signed-in user (NULL when signed out)
  fetched,      \* client -> the Dashboard's `products` state (rows, newest first)
  pc,           \* client -> position inside the running handler
  held,         \* client -> values the running handler captured before its await
  toast,        \* client -> title of the last toast shown
  applied,      \* client -> whether its last add-to-cart update matched a row
  resp          \* the last request served and its outcome

vars == <<users, nextUid, profiles, categories, products, nextPid, objects,
          session, fetched, pc, held, toast, applied, resp>>

dbVars == <<users, nextUid, profiles, categories, products, nextPid, objects>>
clientVars == <<session, fetched, pc, held, toast, applied>>

----------------------------------------------------------------------------
(* Bounds of the model *)

MaxUsers == 2
MaxProducts == 1
MaxQty == 1

----------------------------------------------------------------------------
(* SQL values *)

NULL == << >>
Some(x) == <<x>>

\* a = b in SQL: NULL when either side is NULL
SqlEq(a, b) ==
  IF a = NULL \/ b = NULL THEN "null" ELSE IF a = b THEN "true" ELSE "false"

SqlAnd(a, b) ==
  IF a = "false" \/ b = "false" THEN "false"
  ELSE IF a = "null" \/ b = "null" THEN "null" ELSE "true"

Coalesce(a, b) == IF a = NULL THEN b ELSE a[1]

\* CREATE TYPE public.user_role AS ENUM ('buyer', 'seller')
user_role == {"buyer", "seller"}

\* text::user_role: NULL stays NULL, a label of the enum is itself, anything else raises
CastRaises(text) == IF text = NULL THEN FALSE ELSE text[1] \notin user_role

\* json ->> key: the text under the key, NULL when the key is absent
JsonText(json, key) == IF key \in DOMAIN json THEN Some(json[key]) ELSE NULL

\* uuid::text
UuidText(u) == <<"u1", "u2", "u3", "u4">>[u]

----------------------------------------------------------------------------
(* Requesting identities *)

Uids == 1 .. MaxUsers
Actors == {NULL} \cup {Some(u) : u \in Uids}

\* auth.role(): the database role the request's JWT maps to
AuthRole(uid) == IF uid = NULL THEN "anon" ELSE "authenticated"

DbRoles == {"anon", "authenticated"}

\* A request can carry the JWT of any identity that was ever issued
\* (a deleted identity's token stays valid until it expires).
Issued(uid) == IF uid = NULL THEN TRUE ELSE uid[1] < nextUid

----------------------------------------------------------------------------
(* Storage object names *)

\* An object name is a path, kept as its sequence of segments.
\* storage.foldername(name): the segments before the last one.
FolderName(name) == SubSeq(name, 1, Len(name) - 1)

\* sql array subscript: NULL when out of range
ArrayAt(arr, i) == IF i \in 1 .. Len(arr) THEN Some(arr[i]) ELSE NULL

TextOfUid(uid) == IF uid = NULL THEN NULL ELSE Some(UuidText(uid[1]))

----------------------------------------------------------------------------
(* Row-level security policies *)

Policies == {
  [name |-> "Users can view their own profile",
   tbl |-> "profiles", cmd |-> "SELECT", roles |-> DbRoles, hasCheck |-> FALSE],
  [name |-> "Users can update their own profile",
   tbl |-> "profiles", cmd |-> "UPDATE", roles |-> DbRoles, hasCheck |-> FALSE],
  [name |-> "Users can insert their own profile",
   tbl |-> "profiles", cmd |-> "INSERT", roles |-> DbRoles, hasCheck |-> TRUE],
  [name |-> "Anyone can view categories",
   tbl |-> "categories", cmd |-> "SELECT", roles |-> {"authenticated", "anon"},
   hasCheck |-> FALSE],
  [name |-> "Anyone can view active products",
   tbl |-> "products", cmd |-> "SELECT", roles |-> DbRoles, hasCheck |-> FALSE],
  [name |-> "Sellers can manage their own products",
   tbl |-> "products", cmd |-> "ALL", roles |-> DbRoles, hasCheck |-> FALSE],
  [name |-> "Anyone can view product images",
   tbl |-> "objects", cmd |-> "SELECT", roles |-> DbRoles, hasCheck |-> FALSE],
  [name |-> "Sellers can upload product images",
   tbl |-> "objects", cmd |-> "INSERT", roles |-> DbRoles, hasCheck |-> TRUE],
  [name |-> "Sellers can update their product images",
   tbl |-> "objects", cmd |-> "UPDATE", roles |-> DbRoles, hasCheck |-> FALSE],
  [name |-> "Sellers can delete their product images",
   tbl |-> "objects", cmd |-> "DELETE", roles |-> DbRoles, hasCheck |-> FALSE] }

\* no owner test
ProfileOwnerLax(uid, row) == "true"
\* auth.uid() = id
ProfileOwner(uid, row) == SqlEq(uid, Some(row.id))

\* any signed-in identity
ProductOwnerLax(uid, row) == SqlEq(Some(AuthRole(uid)), Some("authenticated"))
\* auth.uid() = seller_id
ProductOwner(uid, row) == SqlEq(uid, Some(row.seller_id))

\* no is_active test
ProductActiveLax(row) == "true"
\* is_active = true
ProductActive(row) == SqlEq(Some(row.is_active), Some(TRUE))

InBucket(row) == SqlEq(Some(row.bucket_id), Some("product-images"))

\* bucket_id = 'product-images' AND auth.role() = 'authenticated'
ObjectUploader(uid, row) ==
  SqlAnd(InBucket(row), SqlEq(Some(AuthRole(uid)), Some("authenticated")))

\* any signed-in identity, whatever the folder
ObjectOwnerLax(uid, row) ==
  SqlAnd(InBucket(row), SqlEq(Some(AuthRole(uid)), Some("authenticated")))
\* bucket_id = 'product-images' AND auth.uid()::text = (storage.foldername(name))[1]
ObjectOwner(uid, row) ==
  SqlAnd(InBucket(row), SqlEq(TextOfUid(uid), ArrayAt(FolderName(row.name), 1)))

\* The USING expression of a policy, evaluated for a requester and a row
\* (for an INSERT policy: its WITH CHECK expression).
PolicyExpr(p, uid, row) ==
  CASE p.name = "Users can view their own profile" -> ProfileOwner(uid, row)
    [] p.name = "Users can update their own profile" -> ProfileOwner(uid, row)
    [] p.name = "Users can insert their own profile" -> ProfileOwner(uid, row)
    [] p.name = "Anyone can view categories" -> "true"
    [] p.name = "Anyone can view active products" -> ProductActive(row)
    [] p.name = "Sellers can manage their own products" -> ProductOwner(uid, row)
    [] p.name = "Anyone can view product images" -> InBucket(row)
    [] p.name = "Sellers can upload product images" -> ObjectUploader(uid, row)
    [] p.name = "Sellers can update their product images" -> ObjectOwner(uid, row)
    [] p.name = "Sellers can delete their product images" -> ObjectOwner(uid, row)

\* Row-level security is enabled on every table: a command is allowed on a row
\* only through a policy for that command (or FOR ALL) granted to the
\* requester's role; with no such policy it is denied.
\* a policy read as granting every command
ApplicableAnyCmd(tbl, cmd, uid) ==
  {p \in Policies : p.tbl = tbl /\ AuthRole(uid) \in p.roles}

Applicable(tbl, cmd, uid) ==
  {p \in Policies : p.tbl = tbl /\ p.cmd \in {cmd, "ALL"} /\ AuthRole(uid) \in p.roles}

Admits(tbl, cmd, uid, row) ==
  \E p \in Applicable(tbl, cmd, uid) : PolicyExpr(p, uid, row) = "true"

\* rows a SELECT returns
Visible(tbl, uid, rows) == {r \in rows : Admits(tbl, "SELECT", uid, r)}

\* rows an UPDATE or DELETE with a WHERE clause acts on: the rows it can read
\* that its own policies admit
Targets(tbl, cmd, uid, rows) ==
  {r \in rows : Admits(tbl, "SELECT", uid, r) /\ Admits(tbl, cmd, uid, r)}

\* WITH CHECK on the row an INSERT writes (a policy without WITH CHECK uses
\* its USING expression)
InsertChecked(tbl, uid, row) == Admits(tbl, "INSERT", uid, row)

\* WITH CHECK on the row an UPDATE writes; the new row must stay readable
UpdateChecked(tbl, uid, row) ==
  Admits(tbl, "UPDATE", uid, row) /\ Admits(tbl, "SELECT", uid, row)

----------------------------------------------------------------------------
(* Responses *)

Ids(rows) == {r.id : r \in rows}

\* rows: the ids of the rows the request returned or wrote
Resp(op, actor, arg, ok, rows) ==
  [op |-> op, actor |-> actor, arg |-> arg, ok |-> ok, rows |-> Ids(rows)]

NoResp == Resp("none", NULL, NULL, TRUE, {})

Patched(row, patch) == [row EXCEPT ![patch.col] = patch.val]

----------------------------------------------------------------------------
(* Identity provider and signup trigger *)

Emails == {"a@x"}
FullNames == {"", "A"}

\* raw_user_meta_data: a json object with any of the keys full_name, role
Metas ==
  UNION {[ks -> {"A", "buyer", "seller", "admin"}] : ks \in SUBSET {"full_name", "role"}}

SignupMetas ==
  {m \in Metas : /\ ("full_name" \in DOMAIN m => m["full_name"] = "A")
                 /\ ("role" \in DOMAIN m => m["role"] # "A")}

\* the role defaulting to seller
HandleNewUserRowNoDefault(new) ==
  [id |-> new.id,
   email |-> new.email,
   full_name |-> Coalesce(JsonText(new.raw_user_meta_data, "full_name"), ""),
   role |-> Coalesce(JsonText(new.raw_user_meta_data, "role"), "seller")]

\* handle_new_user(): the profile row the trigger inserts for the new identity
HandleNewUserRow(new) ==
  [id |-> new.id,
   email |-> new.email,
   full_name |-> Coalesce(JsonText(new.raw_user_meta_data, "full_name"), ""),
   role |-> Coalesce(JsonText(new.raw_user_meta_data, "role"), "buyer")]

\* a cast that tolerates any label
HandleNewUserRaisesNever(new) == FALSE

\* handle_new_user() raises when the role text is no label of user_role, or
\* when the insert hits the primary key of profiles
HandleNewUserRaises(new) ==
  \/ CastRaises(JsonText(new.raw_user_meta_data, "role"))
  \/ new.id \in Ids(profiles)

\* auth.users gets a row and, in the same transaction, on_auth_user_created
\* runs handle_new_user() as SECURITY DEFINER (no policy applies to it); when
\* the trigger raises the transaction is rolled back.
SignUp(email, meta) ==
  /\ nextUid <= MaxUsers
  /\ LET new == [id |-> nextUid, email |-> email, raw_user_meta_data |-> meta]
     IN IF HandleNewUserRaises(new)
        THEN /\ UNCHANGED <<users, nextUid, profiles>>
             /\ resp' = Resp("auth.signUp", NULL, new, FALSE, {})
        ELSE /\ users' = users \cup {[id |-> new.id, email |-> new.email]}
             /\ profiles' = profiles \cup {HandleNewUserRow(new)}
             /\ nextUid' = nextUid + 1
             /\ resp' = Resp("auth.signUp", NULL, new, TRUE, {})
  /\ UNCHANGED <<categories, products, nextPid, objects>>
  /\ UNCHANGED clientVars

\* REFERENCES auth.users ON DELETE CASCADE
Cascade(rows, col, u) == {r \in rows : r[col] # u}

\* The identity provider deletes an identity.
DeleteUser(u) ==
  /\ u \in Ids(users)
  /\ users' = {r \in users : r.id # u}
  /\ profiles' = Cascade(profiles, "id", u)
  /\ products' = Cascade(products, "seller_id", u)
  /\ resp' = Resp("auth.admin.deleteUser", NULL, Some(u), TRUE, {})
  /\ UNCHANGED <<nextUid, categories, nextPid, objects>>
  /\ UNCHANGED clientVars

----------------------------------------------------------------------------
(* Requests on public.profiles *)

ProfileRows ==
  [id : Uids, email : Emails, full_name : {""}, role : user_role]

ProfilePatches ==
  {[col |-> "id", val |-> u] : u \in Uids}
  \cup {[col |-> "full_name", val |-> n] : n \in FullNames}
  \cup {[col |-> "role", val |-> r] : r \in user_role}

\* without the primary key
ProfileKeysOkNoPk(rows, others) == \A n \in rows : n.id \in Ids(users)
\* PRIMARY KEY (id), id REFERENCES auth.users
ProfileKeysOk(rows, others) ==
  \A n \in rows : n.id \in Ids(users) /\ n.id \notin Ids(others)

ProfileSelect(a) ==
  /\ Issued(a)
  /\ resp' = Resp("profiles.select", a, NULL, TRUE, Visible("profiles", a, profiles))
  /\ UNCHANGED dbVars
  /\ UNCHANGED clientVars

ProfileInsert(a, row) ==
  /\ Issued(a)
  /\ LET ok == InsertChecked("profiles", a, row) /\ ProfileKeysOk({row}, profiles)
     IN /\ profiles' = IF ok THEN profiles \cup {row} ELSE profiles
        /\ resp' = Resp("profiles.insert", a, Some(row.id), ok, IF ok THEN {row} ELSE {})
  /\ UNCHANGED <<users, nextUid, categories, products, nextPid, objects>>
  /\ UNCHANGED clientVars

ProfileUpdate(a, id, patch) ==
  /\ Issued(a)
  /\ LET hit == Targets("profiles", "UPDATE", a, {r \in profiles : r.id = id})
         new == {Patched(r, patch) : r \in hit}
         ok == /\ \A n \in new : UpdateChecked("profiles", a, n)
               /\ ProfileKeysOk(new, profiles \ hit)
     IN /\ profiles' = IF ok THEN (profiles \ hit) \cup new ELSE profiles
        /\ resp' = Resp("profiles.update", a, Some(id), ok, IF ok THEN new ELSE {})
  /\ UNCHANGED <<users, nextUid, categories, products, nextPid, objects>>
  /\ UNCHANGED clientVars

ProfileDelete(a, id) ==
  /\ Issued(a)
  /\ LET hit == Targets("profiles", "DELETE", a, {r \in profiles : r.id = id})
     IN /\ profiles' = profiles \ hit
        /\ resp' = Resp("profiles.delete", a, Some(id), TRUE, hit)
  /\ UNCHANGED <<users, nextUid, categories, products, nextPid, objects>>
  /\ UNCHANGED clientVars

----------------------------------------------------------------------------
(* Initial state: the database as the migration leaves it, no client signed in *)

Clients == {"c1", "c2"}

\* INSERT INTO public.categories ...: the five seeded rows
SeedCategories ==
  {[id |-> 1, name |-> "Electronics"], [id |-> 2, name |-> "Clothing"],
   [id |-> 3, name |-> "Books"], [id |-> 4, name |-> "Home & Garden"],
   [id |-> 5, name |-> "Sports"]}

InitDb ==
  /\ users = {}
  /\ nextUid = 1
  /\ profiles = {}
  /\ categories = SeedCategories
  /\ products = {}
  /\ nextPid = 1
  /\ objects = {}

InitClients ==
  /\ session = [c \in Clients |-> NULL]
  /\ fetched = [c \in Clients |-> << >>]
  /\ pc = [c \in Clients |-> "idle"]
  /\ held = [c \in Clients |-> NULL]
  /\ toast = [c \in Clients |-> "none"]
  /\ applied = [c \in Clients |-> FALSE]

InitAuth == InitDb /\ InitClients /\ resp = NoResp

NextAuth ==
  \/ \E e \in Emails, m \in SignupMetas : SignUp(e, m)
  \/ \E u \in Uids : DeleteUser(u)
  \/ \E a \in Actors : ProfileSelect(a)
  \/ \E a \in Actors, row \in ProfileRows : ProfileInsert(a, row)
  \/ \E a \in Actors, u \in Uids, patch \in ProfilePatches : ProfileUpdate(a, u, patch)
  \/ \E a \in Actors, u \in Uids : ProfileDelete(a, u)

\* Identities and their profiles
SpecAuth == InitAuth /\ [][NextAuth]_vars

----------------------------------------------------------------------------
(* Claims about identities and profiles (checked under SpecAuth) *)

ProfileMutations == {"profiles.insert", "profiles.update", "profiles.delete"}

\* C4: a select on profiles returns a row only to the identity equal to the
\* row's id, and an insert, update or delete on profiles requested by an
\* identity leaves every row of another id as it was and creates no row of
\* another id; an anonymous request returns and changes nothing.
C4_ProfileIsolation ==
  [][/\ resp'.op = "profiles.select" =>
          \A id \in resp'.rows : resp'.actor = Some(id)
     /\ resp'.op \in ProfileMutations =>
          /\ \A r \in profiles : resp'.actor # Some(r.id) => r \in profiles'
          /\ \A r \in profiles' \ profiles : resp'.actor = Some(r.id)]_vars

\* an identity asked to update another identity's existing profile: nothing written
C4_Witness ==
  /\ resp.op = "profiles.update"
  /\ resp.actor # NULL
  /\ resp.actor # resp.arg
  /\ resp.arg[1] \in Ids(profiles)
  /\ resp.rows = {}
  /\ Cardinality(profiles) = 2

\* C5: every existing identity has exactly one profile row, whose id is the
\* identity's id, and every profile row belongs to an existing identity.
C5_OneProfilePerIdentity ==
  /\ \A u \in users : Cardinality({r \in profiles : r.id = u.id}) = 1
  /\ \A r \in profiles : r.id \in Ids(users)

\* an identity's insert of a second profile for itself was refused, after
\* another identity had been deleted
C5_Witness ==
  /\ resp.op = "profiles.insert"
  /\ resp.actor = resp.arg
  /\ ~resp.ok
  /\ resp.arg[1] \in Ids(users)
  /\ nextUid - 1 > Cardinality(users)

\* C6: right after a signup that succeeded, the new identity's profile has the
\* identity's email, the metadata's full_name (the empty string when it has
\* none) and the metadata's role (buyer when it has none).
C6_ProfileFromMetadata ==
  (resp.op = "auth.signUp" /\ resp.ok) =>
    LET new == resp.arg
        meta == new.raw_user_meta_data
    IN \E r \in profiles :
         /\ r.id = new.id
         /\ r.email = new.email
         /\ r.full_name = IF "full_name" \in DOMAIN meta THEN meta["full_name"] ELSE ""
         /\ r.role = IF "role" \in DOMAIN meta THEN meta["role"] ELSE "buyer"
         /\ r.role \in user_role

\* a signup with no metadata at all has just been served
C6_Witness ==
  /\ resp.op = "auth.signUp"
  /\ resp.ok
  /\ DOMAIN resp.arg.raw_user_meta_data = {}
  /\ resp.arg.id \in Ids(profiles)

\* C9: a signup whose metadata role is no label of user_role fails, and it
\* leaves auth.users, profiles and every other table as they were.
C9_InvalidRoleAborts ==
  [][(/\ resp'.op = "auth.signUp"
      /\ "role" \in DOMAIN resp'.arg.raw_user_meta_data
      /\ resp'.arg.raw_user_meta_data["role"] \notin user_role)
     => (/\ ~resp'.ok
         /\ resp'.arg.id \notin Ids(users')
         /\ resp'.arg.id \notin Ids(profiles')
         /\ UNCHANGED dbVars)]_vars

\* a signup with role "admin" was refused while another identity exists
C9_Witness ==
  /\ resp.op = "auth.signUp"
  /\ "role" \in DOMAIN resp.arg.raw_user_meta_data
  /\ resp.arg.raw_user_meta_data["role"] = "admin"
  /\ ~resp.ok
  /\ users # {}

----------------------------------------------------------------------------
(* Requests on public.products *)

\* quantity INTEGER NOT NULL: the column takes any integer
Qtys == -1 .. MaxQty

ProductPatches ==
  {[col |-> "seller_id", val |-> u] : u \in Uids}
  \cup {[col |-> "quantity", val |-> q] : q \in Qtys}
  \cup {[col |-> "is_active", val |-> b] : b \in BOOLEAN}

\* seller_id REFERENCES auth.users
ProductKeysOk(rows) == \A n \in rows : n.seller_id \in Ids(users)

\* UPDATE products SET patch WHERE id = ...: the table after the statement,
\* whether it succeeded, and the rows it wrote
ProductUpdateResult(a, id, patch) ==
  LET hit == Targets("products", "UPDATE", a, {r \in products : r.id = id})
      new == {Patched(r, patch) : r \in hit}
      ok == (\A n \in new : UpdateChecked("products", a, n)) /\ ProductKeysOk(new)
  IN [table |-> IF ok THEN (products \ hit) \cup new ELSE products,
      ok |-> ok,
      rows |-> IF ok THEN new ELSE {}]

\* INSERT INTO products: id is generated, the rest comes from the request
ProductInsertResult(a, row) ==
  LET ok == InsertChecked("products", a, row) /\ ProductKeysOk({row})
  IN [table |-> IF ok THEN products \cup {row} ELSE products,
      ok |-> ok,
      rows |-> IF ok THEN {row} ELSE {}]

ProductSelect(a) ==
  /\ Issued(a)
  /\ resp' = Resp("products.select", a, NULL, TRUE, Visible("products", a, products))
  /\ UNCHANGED dbVars
  /\ UNCHANGED clientVars

ProductInsert(a, seller, qty, active) ==
  /\ Issued(a)
  /\ nextPid <= MaxProducts
  /\ LET row == [id |-> nextPid, seller_id |-> seller, quantity |-> qty,
                 is_active |-> active, image_url |-> NULL]
         res == ProductInsertResult(a, row)
     IN /\ products' = res.table
        /\ nextPid' = IF res.ok THEN nextPid + 1 ELSE nextPid
        /\ resp' = Resp("products.insert", a, Some(seller), res.ok, res.rows)
  /\ UNCHANGED <<users, nextUid, profiles, categories, objects>>
  /\ UNCHANGED clientVars

ProductUpdate(a, id, patch) ==
  /\ Issued(a)
  /\ LET res == ProductUpdateResult(a, id, patch)
     IN /\ products' = res.table
        /\ resp' = Resp("products.update", a, Some(id), res.ok, res.rows)
  /\ UNCHANGED <<users, nextUid, profiles, categories, nextPid, objects>>
  /\ UNCHANGED clientVars

ProductDelete(a, id) ==
  /\ Issued(a)
  /\ LET hit == Targets("products", "DELETE", a, {r \in products : r.id = id})
     IN /\ products' = products \ hit
        /\ resp' = Resp("products.delete", a, Some(id), TRUE, hit)
  /\ UNCHANGED <<users, nextUid, profiles, categories, nextPid, objects>>
  /\ UNCHANGED clientVars

Pids == 1 .. MaxProducts

----------------------------------------------------------------------------
(* Requests on public.categories *)

CategoryNames == {"Toys"}
CategoryIds == 1 .. 6

CategorySelect(a) ==
  /\ Issued(a)
  /\ resp' = Resp("categories.select", a, NULL, TRUE,
                  Visible("categories", a, categories))
  /\ UNCHANGED dbVars
  /\ UNCHANGED clientVars

CategoryInsert(a, id, name) ==
  /\ Issued(a)
  /\ LET row == [id |-> id, name |-> name]
         ok == InsertChecked("categories", a, row) /\ id \notin Ids(categories)
     IN /\ categories' = IF ok THEN categories \cup {row} ELSE categories
        /\ resp' = Resp("categories.insert", a, Some(id), ok, IF ok THEN {row} ELSE {})
  /\ UNCHANGED <<users, nextUid, profiles, products, nextPid, objects>>
  /\ UNCHANGED clientVars

CategoryUpdate(a, id, name) ==
  /\ Issued(a)
  /\ LET hit == Targets("categories", "UPDATE", a, {r \in categories : r.id = id})
         new == {[r EXCEPT !.name = name] : r \in hit}
         ok == \A n \in new : UpdateChecked("categories", a, n)
     IN /\ categories' = IF ok THEN (categories \ hit) \cup new ELSE categories
        /\ resp' = Resp("categories.update", a, Some(id), ok, IF ok THEN new ELSE {})
  /\ UNCHANGED <<users, nextUid, profiles, products, nextPid, objects>>
  /\ UNCHANGED clientVars

CategoryDelete(a, id) ==
  /\ Issued(a)
  /\ LET hit == Targets("categories", "DELETE", a, {r \in categories : r.id = id})
     IN /\ categories' = categories \ hit
        /\ resp' = Resp("categories.delete", a, Some(id), TRUE, hit)
  /\ UNCHANGED <<users, nextUid, profiles, products, nextPid, objects>>
  /\ UNCHANGED clientVars

\* Every identity 1..MaxUsers has signed up without metadata.
InitUsers ==
  /\ users = {[id |-> u, email |-> "a@x"] : u \in Uids}
  /\ nextUid = MaxUsers + 1
  /\ profiles = {HandleNewUserRow([id |-> u, email |-> "a@x",
                                   raw_user_meta_data |-> << >>]) : u \in Uids}

InitRls ==
  /\ InitUsers
  /\ categories = SeedCategories
  /\ products = {}
  /\ nextPid = 1
  /\ objects = {}
  /\ InitClients
  /\ resp = NoResp

\* the policies never read the quantity: two values suffice to see it change
RlsPatches == {p \in ProductPatches : p.col = "quantity" => p.val \in {0, MaxQty}}

NextRls ==
  \/ \E a \in Actors : ProductSelect(a)
  \/ \E a \in Actors, u \in Uids, b \in BOOLEAN : ProductInsert(a, u, MaxQty, b)
  \/ \E a \in Actors, id \in Pids, patch \in RlsPatches : ProductUpdate(a, id, patch)
  \/ \E a \in Actors, id \in Pids : ProductDelete(a, id)
  \/ \E u \in Uids : DeleteUser(u)

\* Requests of any identity on products
SpecRls == InitRls /\ [][NextRls]_vars

NextCat ==
  \/ SignUp("a@x", << >>)
  \/ \E u \in Uids : DeleteUser(u)
  \/ \E a \in Actors : CategorySelect(a)
  \/ \E a \in Actors, id \in CategoryIds, n \in CategoryNames : CategoryInsert(a, id, n)
  \/ \E a \in Actors, id \in CategoryIds, n \in CategoryNames : CategoryUpdate(a, id, n)
  \/ \E a \in Actors, id \in CategoryIds : CategoryDelete(a, id)

\* Requests of any identity on categories
SpecCat == InitAuth /\ [][NextCat]_vars

----------------------------------------------------------------------------
(* Claims about products and categories (checked under SpecRls, SpecCat) *)

ProductMutations == {"products.insert", "products.update", "products.delete"}

\* C2: an insert, update or delete on products requested by an identity (or
\* anonymously) leaves every row of another seller_id as it was, and every row
\* it writes has the requester as seller_id: no row is created for, or
\* reassigned to, another seller.
C2_OnlySellerMutates ==
  [][resp'.op \in ProductMutations =>
       /\ \A r \in products : resp'.actor # Some(r.seller_id) => r \in products'
       /\ \A r \in products' \ products : resp'.actor = Some(r.seller_id)]_vars

\* an identity asked to update another seller's existing product: nothing written
C2_Witness ==
  /\ resp.op = "products.update"
  /\ resp.actor # NULL
  /\ resp.rows = {}
  /\ \E r \in products : r.id = resp.arg[1] /\ resp.actor # Some(r.seller_id)

\* C3: a select on products returns to every requester exactly the rows that
\* are active or whose seller_id is the requester: an active row to every
\* identity and to anonymous requests, an inactive row to its seller alone.
C3_ProductVisibility ==
  /\ \A a \in Actors : \A r \in products :
       r \in Visible("products", a, products) <=> (r.is_active \/ a = Some(r.seller_id))
  /\ resp.op = "products.select" =>
       resp.rows = {r.id : r \in {x \in products :
                                    x.is_active \/ resp.actor = Some(x.seller_id)}}

\* another identity's select has just left out an inactive product
C3_Witness ==
  /\ resp.op = "products.select"
  /\ resp.actor # NULL
  /\ \E r \in products :
       ~r.is_active /\ resp.actor # Some(r.seller_id) /\ r.id \notin resp.rows

\* C7: the categories are the seeded rows in every state, whatever inserts,
\* updates and deletes were requested, and a select returns all of them to
\* every requester, anonymous included.
C7_CategoriesReadOnly ==
  /\ categories = SeedCategories
  /\ resp.op = "categories.select" => resp.rows = Ids(SeedCategories)

\* a signed-in identity asked to delete a seeded category
C7_Witness ==
  /\ resp.op = "categories.delete"
  /\ resp.actor # NULL
  /\ resp.arg[1] \in Ids(categories)

----------------------------------------------------------------------------
(* Requests on storage.objects *)

Buckets == {"product-images", "other"}

\* names under an identity's folder, and a name with no folder that reads like
\* an identity's id
ObjectNames ==
  {<<UuidText(u), "f">> : u \in Uids} \cup {<<UuidText(1)>>}

ObjectPatches ==
  {[col |-> "data", val |-> 1]}
  \cup {[col |-> "name", val |-> n] : n \in ObjectNames}

\* an object is identified by its bucket and name
ObjectKey(r) == [id |-> <<r.bucket_id>> \o r.name]
ObjectKeys(rows) == {ObjectKey(r) : r \in rows}

ObjectSelect(a) ==
  /\ Issued(a)
  /\ resp' = Resp("objects.select", a, NULL, TRUE,
                  ObjectKeys(Visible("objects", a, objects)))
  /\ UNCHANGED dbVars
  /\ UNCHANGED clientVars

\* INSERT INTO storage.objects (an upload without upsert)
ObjectInsertResult(a, row) ==
  LET ok == InsertChecked("objects", a, row)
            /\ ObjectKey(row) \notin ObjectKeys(objects)
  IN [table |-> IF ok THEN objects \cup {row} ELSE objects,
      ok |-> ok,
      rows |-> IF ok THEN {row} ELSE {}]

ObjectInsert(a, bucket, name, data) ==
  /\ Issued(a)
  /\ LET row == [bucket_id |-> bucket, name |-> name, data |-> data]
         res == ObjectInsertResult(a, row)
     IN /\ objects' = res.table
        /\ resp' = Resp("objects.insert", a, ObjectKey(row).id, res.ok,
                        ObjectKeys(res.rows))
  /\ UNCHANGED <<users, nextUid, profiles, categories, products, nextPid>>
  /\ UNCHANGED clientVars

ObjectUpdate(a, bucket, name, patch) ==
  /\ Issued(a)
  /\ LET hit == Targets("objects", "UPDATE", a,
                        {r \in objects : r.bucket_id = bucket /\ r.name = name})
         new == {Patched(r, patch) : r \in hit}
         ok == /\ \A n \in new : UpdateChecked("objects", a, n)
               /\ ObjectKeys(new) \cap ObjectKeys(objects \ hit) = {}
     IN /\ objects' = IF ok THEN (objects \ hit) \cup new ELSE objects
        /\ resp' = Resp("objects.update", a, <<bucket>> \o name, ok,
                        IF ok THEN ObjectKeys(new) ELSE {})
  /\ UNCHANGED <<users, nextUid, profiles, categories, products, nextPid>>
  /\ UNCHANGED clientVars

ObjectDelete(a, bucket, name) ==
  /\ Issued(a)
  /\ LET hit == Targets("objects", "DELETE", a,
                        {r \in objects : r.bucket_id = bucket /\ r.name = name})
     IN /\ objects' = objects \ hit
        /\ resp' = Resp("objects.delete", a, <<bucket>> \o name, TRUE, ObjectKeys(hit))
  /\ UNCHANGED <<users, nextUid, profiles, categories, products, nextPid>>
  /\ UNCHANGED clientVars

NextStore ==
  \/ \E a \in Actors : ObjectSelect(a)
  \/ \E a \in Actors, b \in Buckets, n \in ObjectNames : ObjectInsert(a, b, n, 0)
  \/ \E a \in Actors, n \in ObjectNames, patch \in ObjectPatches :
       ObjectUpdate(a, "product-images", n, patch)
  \/ \E a \in Actors, n \in ObjectNames : ObjectDelete(a, "product-images", n)

\* Requests of any identity on the stored images
SpecStore == InitRls /\ [][NextStore]_vars

\* C10: a select on the stored images returns every object of the bucket to
\* every requester, anonymous included; an insert succeeds only for a
\* signed-in identity; an update or delete leaves every object as it was
\* unless the requester's id is the first path segment of the object's name.
C10_ImageObjects ==
  [][/\ resp'.op = "objects.select" => resp'.rows = Ids(ObjectKeys(objects))
     /\ (resp'.op = "objects.insert" /\ resp'.ok) => resp'.actor # NULL
     /\ resp'.op \in {"objects.insert", "objects.update", "objects.delete"} =>
          \A r \in objects :
            TextOfUid(resp'.actor) # Some(r.name[1]) => r \in objects']_vars

\* a signed-in identity asked to delete an object under another identity's
\* folder: nothing deleted
C10_Witness ==
  /\ resp.op = "objects.delete"
  /\ resp.actor # NULL
  /\ resp.rows = {}
  /\ \E r \in objects :
       /\ <<r.bucket_id>> \o r.name = resp.arg
       /\ Len(r.name) = 2
       /\ TextOfUid(resp.actor) # Some(r.name[1])

----------------------------------------------------------------------------
(* Dashboard: fetchProducts and handleAddToCart *)

RECURSIVE SeqDesc(_)
\* .order('created_at', { ascending: false }): ids are handed out in creation
\* order, so newest first is highest id first
SeqDesc(rows) ==
  IF rows = {} THEN << >>
  ELSE LET m == CHOOSE r \in rows : \A o \in rows : o.id <= r.id
       IN <<m>> \o SeqDesc(rows \ {m})

\* from('products').select('*').eq('is_active', true).order(...)
FetchProductsResult(uid) ==
  SeqDesc({r \in Visible("products", uid, products) : r.is_active = TRUE})

\* from('products').select('*').eq('seller_id', user.id).order(...)
FetchMyProductsResult(uid) ==
  SeqDesc({r \in Visible("products", uid, products) : uid = Some(r.seller_id)})

\* products.find(p => p.id === productId): the first match, NULL for undefined
Find(list, pid) ==
  LET at == {i \in 1 .. Len(list) : list[i].id = pid}
  IN IF at = {} THEN NULL
     ELSE Some(list[CHOOSE i \in at : \A j \in at : i <= j])

\* fetchProducts: runs on mount, on a profile change, and after a handler asked
\* for a refresh; setProducts(data || [])
FetchProducts(c) ==
  /\ pc[c] \in {"idle", "refetch"}
  /\ LET data == FetchProductsResult(session[c])
     IN /\ fetched' = [fetched EXCEPT ![c] = data]
        /\ resp' = Resp("products.select", session[c], NULL, TRUE,
                        {data[i] : i \in 1 .. Len(data)})
  /\ pc' = [pc EXCEPT ![c] = "idle"]
  /\ UNCHANGED dbVars
  /\ UNCHANGED <<session, held, toast, applied>>

\* the lowest quantity the model lets a decrement write
QtyFloor == 0 - (MaxQty + 1)

\* only the missing product refused
GuardNone(product) == product = NULL
\* !product || product.quantity === 0
Unavailable(product) ==
  IF product = NULL THEN TRUE ELSE product[1].quantity = 0

\* handleAddToCart up to its await: the stock guard, then the update is sent
HandleAddToCart(c, pid) ==
  /\ pc[c] \in {"idle", "refetch"}
  /\ LET product == Find(fetched[c], pid)
     IN IF Unavailable(product)
        THEN /\ toast' = [toast EXCEPT ![c] = "Product unavailable"]
             /\ UNCHANGED <<pc, held, applied>>
        ELSE /\ product[1].quantity - 1 >= QtyFloor
             /\ pc' = [pc EXCEPT ![c] = "update"]
             /\ held' = [held EXCEPT ![c] = product]
             /\ applied' = [applied EXCEPT ![c] = FALSE]
             /\ UNCHANGED toast
  /\ UNCHANGED dbVars
  /\ UNCHANGED <<session, fetched, resp>>

\* the fetched quantity written back
DecrementStored(product) ==
  [col |-> "quantity", val |-> product.quantity]
\* .update({ quantity: product.quantity - 1 })
Decrement(product) ==
  [col |-> "quantity", val |-> product.quantity - 1]

\* handleAddToCart after its await: the update is served (or the request
\* fails), the toast is shown and fetchProducts() is called
AddToCartUpdate(c) ==
  /\ pc[c] = "update"
  /\ \E fails \in BOOLEAN :
       LET product == held[c][1]
           res == ProductUpdateResult(session[c], product.id, Decrement(product))
           error == fails \/ ~res.ok
       IN /\ products' = IF fails THEN products ELSE res.table
          /\ applied' = [applied EXCEPT ![c] = ~error /\ res.rows # {}]
          /\ toast' = [toast EXCEPT ![c] = IF error THEN "Error adding to cart"
                                                    ELSE "Added to cart"]
          /\ pc' = [pc EXCEPT ![c] = IF error THEN "idle" ELSE "refetch"]
          /\ resp' = Resp("products.update", session[c], Some(product.id), ~error,
                          IF fails THEN {} ELSE res.rows)
  /\ held' = [held EXCEPT ![c] = NULL]
  /\ UNCHANGED <<users, nextUid, profiles, categories, nextPid, objects>>
  /\ UNCHANGED <<session, fetched>>

----------------------------------------------------------------------------
(* Two clients and the last unit *)

\* Identity 1 has listed a product with quantity 1, and both clients, signed
\* in as any identities, have fetched the product list.
InitRace ==
  /\ InitUsers
  /\ categories = SeedCategories
  /\ products = {[id |-> 1, seller_id |-> 1, quantity |-> 1, is_active |-> TRUE,
                  image_url |-> NULL]}
  /\ nextPid = 2
  /\ objects = {}
  /\ session \in [Clients -> {Some(u) : u \in Uids}]
  /\ fetched = [c \in Clients |-> FetchProductsResult(session[c])]
  /\ pc = [c \in Clients |-> "idle"]
  /\ held = [c \in Clients |-> NULL]
  /\ toast = [c \in Clients |-> "none"]
  /\ applied = [c \in Clients |-> FALSE]
  /\ resp = NoResp

NextRace ==
  \/ \E c \in Clients : FetchProducts(c)
  \/ \E c \in Clients, pid \in 1 .. MaxProducts + 1 : HandleAddToCart(c, pid)
  \/ \E c \in Clients : AddToCartUpdate(c)

SpecRace == InitRace /\ [][NextRace]_vars

Succeeded(c) == toast[c] = "Added to cart" /\ applied[c]

\* C1: of two clients that fetched the product at quantity 1 and ran
\* handleAddToCart on it, at most one has its update applied and reported as
\* "Added to cart".
C1_AtMostOneSucceeds ==
  Cardinality({c \in Clients : Succeeded(c)}) <= 1

----------------------------------------------------------------------------
(* Buyers, the seller and one listed product *)

\* useAuth().profile: the profile row of the signed-in user, NULL when there
\* is none
ProfileOf(uid) ==
  LET own == {r \in Visible("profiles", uid, profiles) : uid = Some(r.id)}
  IN IF own = {} THEN NULL ELSE Some(CHOOSE r \in own : TRUE)

\* profile?.role === role
HasRole(uid, role) ==
  IF ProfileOf(uid) = NULL THEN FALSE ELSE ProfileOf(uid)[1].role = role

\* showAddToCart={profile?.role === 'buyer'}
ShowAddToCart(c) == HasRole(session[c], "buyer")

\* Identity 1 signed up as a seller and the others without metadata; identity
\* 1 has listed a product with quantity MaxQty; both clients, signed in as any
\* identities, have fetched the product list.
InitCart ==
  /\ users = {[id |-> u, email |-> "a@x"] : u \in Uids}
  /\ nextUid = MaxUsers + 1
  /\ profiles =
       {HandleNewUserRow([id |-> u, email |-> "a@x",
                          raw_user_meta_data |->
                            IF u = 1 THEN [role |-> "seller"] ELSE << >>]) : u \in Uids}
  /\ categories = SeedCategories
  /\ products = {[id |-> 1, seller_id |-> 1, quantity |-> MaxQty,
                  is_active |-> TRUE, image_url |-> NULL]}
  /\ nextPid = 2
  /\ objects = {}
  /\ session \in [Clients -> {Some(u) : u \in Uids}]
  /\ fetched = [c \in Clients |-> FetchProductsResult(session[c])]
  /\ pc = [c \in Clients |-> "idle"]
  /\ held = [c \in Clients |-> NULL]
  /\ toast = [c \in Clients |-> "none"]
  /\ applied = [c \in Clients |-> FALSE]
  /\ resp = NoResp

\* the cart handlers, and the seller setting the quantity of the product
NextCart ==
  \/ \E c \in Clients : FetchProducts(c)
  \/ \E c \in Clients, pid \in 1 .. MaxProducts + 1 : HandleAddToCart(c, pid)
  \/ \E c \in Clients : AddToCartUpdate(c)
  \/ \E q \in {-1, 0, MaxQty} :
       ProductUpdate(Some(1), 1, [col |-> "quantity", val |-> q])

SpecCart == InitCart /\ [][NextCart]_vars

\* the step in which client c's add-to-cart update comes back without an
\* error and "Added to cart" is shown
AddedToCart(c) ==
  /\ pc[c] = "update"
  /\ pc'[c] = "refetch"
  /\ toast'[c] = "Added to cart"

\* the stored quantity of product pid goes down by exactly one in the step
StoredOneLess(pid) ==
  \E r \in products : /\ r.id = pid
                      /\ \E n \in products' : n.id = pid /\ n.quantity = r.quantity - 1

\* C11: whenever a buyer's handleAddToCart on a product whose fetched quantity
\* is greater than 0 completes without an error and shows "Added to cart", the
\* stored quantity of the product is exactly one less than before.
C11_PurchaseDecrements ==
  [][\A c \in Clients :
       (AddedToCart(c) /\ ShowAddToCart(c) /\ held[c][1].quantity > 0)
         => StoredOneLess(held[c][1].id)]_vars

\* the product client c's fetched list holds under id pid is absent or has
\* quantity 0
LocallyOut(c, pid) ==
  \/ \A i \in 1 .. Len(fetched[c]) : fetched[c][i].id # pid
  \/ \E i \in 1 .. Len(fetched[c]) :
       /\ fetched[c][i].id = pid
       /\ fetched[c][i].quantity = 0
       /\ \A j \in 1 .. i - 1 : fetched[c][j].id # pid

\* the step in which client c's handler sends its update
UpdateIssued(c) == pc[c] # "update" /\ pc'[c] = "update"

\* the step in which client c's update is served
UpdateServed(c) == pc[c] = "update" /\ pc'[c] # "update"

\* C14: handleAddToCart invoked for a product id that is absent from the
\* client's fetched list or whose fetched quantity is 0 issues no update (the
\* products, and the last request served, stay as they were), shows "Product
\* unavailable" and asks for no refetch; an update is issued only for a
\* product whose fetched quantity is not 0; and every row the update changes
\* is that product's, its quantity then being the fetched quantity minus 1
\* whatever the stored quantity was.
C14_StockGuard ==
  [][\A c \in Clients :
       /\ \A pid \in 1 .. MaxProducts + 1 :
            (HandleAddToCart(c, pid) /\ LocallyOut(c, pid)) =>
              /\ products' = products
              /\ resp' = resp
              /\ toast'[c] = "Product unavailable"
              /\ pc' = pc
              /\ fetched' = fetched
       /\ UpdateIssued(c) =>
            /\ products' = products
            /\ \E i \in 1 .. Len(fetched[c]) :
                 /\ held'[c] = Some(fetched[c][i])
                 /\ fetched[c][i].quantity # 0
       /\ UpdateServed(c) =>
            /\ \A n \in products' \ products :
                 /\ n.id = held[c][1].id
                 /\ n.quantity = held[c][1].quantity - 1
            /\ applied'[c] =>
                 \E n \in products' :
                   /\ n.id = held[c][1].id
                   /\ n.quantity = held[c][1].quantity - 1]_vars

\* a client whose fetched list shows the product at quantity 0 while the
\* stored quantity is not 0 has been told "Product unavailable", and no
\* update of its own is under way
C14_Witness ==
  \E c \in Clients :
    /\ toast[c] = "Product unavailable"
    /\ pc[c] = "idle"
    /\ LocallyOut(c, 1)
    /\ fetched[c] # << >>
    /\ \E r \in products : r.id = 1 /\ r.quantity # 0

\* C12: every product row that comes into existence has as seller_id an
\* identity whose profile role is seller when the row is inserted (so an
\* identity whose profile role is buyer creates no product row).
C12_CreatedOnlyBySeller ==
  [][\A n \in products' :
       n.id \notin Ids(products) => HasRole(Some(n.seller_id), "seller")]_vars

----------------------------------------------------------------------------
(* AddProductDialog: uploadImage and handleSubmit *)

\* A form field's text is a sequence of characters.
Digits == <<"0", "1", "2", "3", "4", "5", "6", "7", "8", "9">>
IsDigit(ch) == \E d \in 1 .. 10 : Digits[d] = ch
DigitVal(ch) == (CHOOSE d \in 1 .. 10 : Digits[d] = ch) - 1

RECURSIVE LeadingInt(_, _)
\* the value of the digits at the end of acc followed by the digits s starts with
LeadingInt(s, acc) ==
  IF s # << >> /\ IsDigit(Head(s))
  THEN LeadingInt(Tail(s), acc * 10 + DigitVal(Head(s)))
  ELSE acc

\* parseInt(text): an optional sign and the leading digits; NaN (here NULL,
\* which is what JSON.stringify sends for NaN) when there is none
ParseInt(text) ==
  LET neg == text # << >> /\ Head(text) = "-"
      rest == IF neg THEN Tail(text) ELSE text
  IN IF rest = << >> \/ ~IsDigit(Head(rest)) THEN NULL
     ELSE Some(IF neg THEN 0 - LeadingInt(rest, 0) ELSE LeadingInt(rest, 0))

\* the decimal text of a one-digit integer
IntText(q) == IF q < 0 THEN <<"-", Digits[1 - q]>> ELSE <<Digits[q + 1]>>

\* what <input type="number" required> (no min, no step) lets through
FormQuantities == {IntText(q) : q \in Qtys} \cup {<<"1", ".", "5">>}

Stamps == <<"t1", "t2", "t3", "t4">>

\* `${user?.id}/${Date.now()}.${fileExt}`: every upload gets a later stamp
FileName(uid, k) == <<UuidText(uid[1]), Stamps[k]>>

InFlight == Cardinality({c \in Clients : pc[c] \in {"upload", "insert"}})

\* handleSubmit up to its first await (it returns at once when no user is
\* signed in): with an image chosen uploadImage runs first, else imageUrl is null
HandleSubmit(c, hasImage) ==
  /\ pc[c] \in {"idle", "refetch"}
  /\ session[c] # NULL
  /\ nextPid + InFlight <= MaxProducts
  /\ hasImage => Cardinality(objects) + InFlight < MaxProducts
  /\ pc' = [pc EXCEPT ![c] = IF hasImage THEN "upload" ELSE "insert"]
  /\ held' = [held EXCEPT ![c] = NULL]
  /\ UNCHANGED dbVars
  /\ UNCHANGED <<session, fetched, toast, applied, resp>>

\* the error is not caught: a url comes back whatever happened
UploadedUrlUncaught(error, name) == Some(name)
\* uploadImage's result: return data.publicUrl (here the name), or, from the
\* catch block, return null
UploadedUrl(error, name) == IF error THEN NULL ELSE Some(name)

\* uploadImage: the object is inserted under the user's folder; any error is
\* caught and null returned, otherwise the public url
SubmitUpload(c) ==
  /\ pc[c] = "upload"
  /\ \E fails \in BOOLEAN :
       LET name == FileName(session[c], Cardinality(objects) + 1)
           row == [bucket_id |-> "product-images", name |-> name, data |-> 0]
           res == ObjectInsertResult(session[c], row)
           error == fails \/ ~res.ok
       IN /\ objects' = IF fails THEN objects ELSE res.table
          /\ held' = [held EXCEPT ![c] = UploadedUrl(error, name)]
          /\ resp' = Resp("objects.insert", session[c], ObjectKey(row).id, ~error,
                          IF fails THEN {} ELSE ObjectKeys(res.rows))
  /\ pc' = [pc EXCEPT ![c] = "insert"]
  /\ UNCHANGED <<users, nextUid, profiles, categories, products, nextPid>>
  /\ UNCHANGED <<session, fetched, toast, applied>>

\* handleSubmit after uploadImage: the insert is served (or the request fails),
\* the toast is shown and onProductAdded() refreshes the lists
SubmitInsert(c, text) ==
  /\ pc[c] = "insert"
  /\ \E fails \in BOOLEAN :
       LET qty == ParseInt(text)
           row == [id |-> nextPid, seller_id |-> session[c][1],
                   quantity |-> Coalesce(qty, 0), is_active |-> TRUE,
                   image_url |-> held[c]]
           res == ProductInsertResult(session[c], row)
           \* quantity INTEGER NOT NULL
           error == fails \/ qty = NULL \/ ~res.ok
       IN /\ products' = IF error THEN products ELSE res.table
          /\ nextPid' = IF error THEN nextPid ELSE nextPid + 1
          /\ toast' = [toast EXCEPT ![c] = IF error THEN "Error adding product"
                                                    ELSE "Product added successfully"]
          /\ pc' = [pc EXCEPT ![c] = IF error THEN "idle" ELSE "refetch"]
          /\ resp' = Resp("products.insert", session[c], session[c], ~error,
                          IF error THEN {} ELSE res.rows)
  /\ held' = [held EXCEPT ![c] = NULL]
  /\ UNCHANGED <<users, nextUid, profiles, categories, objects>>
  /\ UNCHANGED <<session, fetched, applied>>

----------------------------------------------------------------------------
(* The storefront: signed-in clients using the Dashboard, and sellers
   updating the quantity of their products *)

\* Identity 1 signed up as a seller, the others without metadata.  Client c1
\* is signed in as identity 1 and c2 as any identity (the handlers treat the
\* clients alike, so the other assignments are these with c1 and c2 swapped).
InitShop ==
  /\ users = {[id |-> u, email |-> "a@x"] : u \in Uids}
  /\ nextUid = MaxUsers + 1
  /\ profiles =
       {HandleNewUserRow([id |-> u, email |-> "a@x",
                          raw_user_meta_data |->
                            IF u = 1 THEN [role |-> "seller"] ELSE << >>]) : u \in Uids}
  /\ categories = SeedCategories
  /\ products = {}
  /\ nextPid = 1
  /\ objects = {}
  /\ session \in {f \in [Clients -> {Some(u) : u \in Uids}] : f["c1"] = Some(1)}
  /\ fetched = [c \in Clients |-> << >>]
  /\ pc = [c \in Clients |-> "idle"]
  /\ held = [c \in Clients |-> NULL]
  /\ toast = [c \in Clients |-> "none"]
  /\ applied = [c \in Clients |-> FALSE]
  /\ resp = NoResp

Next ==
  \/ \E c \in Clients : FetchProducts(c)
  \/ \E c \in Clients, pid \in Pids : HandleAddToCart(c, pid)
  \/ \E c \in Clients : AddToCartUpdate(c)
  \/ \E c \in Clients, hasImage \in BOOLEAN : HandleSubmit(c, hasImage)
  \/ \E c \in Clients : SubmitUpload(c)
  \/ \E c \in Clients, text \in FormQuantities : SubmitInsert(c, text)
  \/ \E u \in Uids, id \in Pids, q \in Qtys :
       ProductUpdate(Some(u), id, [col |-> "quantity", val |-> q])

Spec == InitShop /\ [][Next]_vars

\* C8: the stored quantity of every product is a non-negative integer.
C8_QuantityNonNegative ==
  \A r \in products : r.quantity \in Nat

----------------------------------------------------------------------------
(* The add-product form alone *)

\* the submissions of the AddProductDialog, and the refresh they end with
NextSubmit ==
  \/ \E c \in Clients : FetchProducts(c)
  \/ \E c \in Clients, hasImage \in BOOLEAN : HandleSubmit(c, hasImage)
  \/ \E c \in Clients : SubmitUpload(c)
  \/ \E c \in Clients, text \in FormQuantities : SubmitInsert(c, text)

SpecSubmit == InitShop /\ [][NextSubmit]_vars

\* the step in which client c's uploadImage ends with a failed upload
UploadFailed(c) ==
  /\ pc[c] = "upload"
  /\ pc'[c] # "upload"
  /\ ~resp'.ok

\* the step in which client c's handleSubmit skips uploadImage
NoImageChosen(c) ==
  /\ pc[c] \in {"idle", "refetch"}
  /\ pc'[c] \notin {"idle", "refetch", "upload"}

\* the step in which client c's insert is served while imageUrl is null
InsertedWithoutUrl(c) ==
  /\ pc[c] = "insert"
  /\ held[c] = NULL
  /\ pc'[c] # "insert"

\* C13: a failed upload is swallowed: no toast is shown, no row is written
\* and the submission goes on to the insert with imageUrl null; when no image
\* is chosen no upload is attempted (no object is written, no request is
\* served) and the submission goes to the insert with imageUrl null; and an
\* insert reached with imageUrl null that is accepted saves the row with
\* image_url null and takes the success path, while one that is refused
\* leaves the products alone and shows the insert's own error.
C13_UploadFailureSwallowed ==
  [][\A c \in Clients :
       /\ UploadFailed(c) =>
            /\ pc'[c] = "insert"
            /\ held'[c] = NULL
            /\ toast' = toast
            /\ products' = products
       /\ NoImageChosen(c) =>
            /\ pc'[c] = "insert"
            /\ held'[c] = NULL
            /\ objects' = objects
            /\ resp' = resp
            /\ toast' = toast
       /\ InsertedWithoutUrl(c) =>
            IF resp'.ok
            THEN /\ toast'[c] = "Product added successfully"
                 /\ pc'[c] = "refetch"
                 /\ \E n \in products' :
                      /\ products' = products \cup {n}
                      /\ n \notin products
                      /\ n.seller_id = session[c][1]
                      /\ n.image_url = NULL
            ELSE /\ toast'[c] = "Error adding product"
                 /\ pc'[c] = "idle"
                 /\ products' = products]_vars

\* a submission whose upload has just failed stands at the insert with
\* imageUrl null and no toast shown
C13_Witness ==
  \E c \in Clients :
    /\ pc[c] = "insert"
    /\ held[c] = NULL
    /\ toast[c] = "none"
    /\ resp.op = "objects.insert"
    /\ ~resp.ok
    /\ products = {}

====
